---- MODULE Spec2Model ----
(***************************************************************************)
(* cconst (src/lib.rs): build-time constants for Copy types.               *)
(*                                                                         *)
(* Text (String, &str, file contents, paths) is modelled as a sequence of  *)
(* one-character strings, so that concatenation, length, prefixes and      *)
(* positions are those of the program's strings.  A value of a Copy type   *)
(* is modelled by its memory: the sequence of the size_of::<T>() bytes at  *)
(* its address (padding bytes included, whatever they hold).               *)
(***************************************************************************)
EXTENDS Integers, Sequences, FiniteSets, TLC

VARIABLES
    registry,   \* CopyConsts.0 : HashMap<String, String>, a function name -> text
    OUT_DIR,    \* what env::var("OUT_DIR") yields in this process
    fs,         \* the file system: a function path -> file content
    stdout,     \* the paths write_code printed during its last call, in order
    op,         \* the last method called on the CopyConsts
    arg,        \* the arguments of the last add_const
    replaced,   \* what HashMap::insert returned (and add_const dropped)
    result,     \* what the last call returned
    prev,       \* op and result of the call before the last one
    committed,  \* write_code has been called on this CopyConsts
    val,        \* marshall_value's argument: the memory of *val
    rexpr,      \* marshall_value's return value
    pc          \* position of the stand-alone marshall_value call

vars == <<registry, OUT_DIR, fs, stdout, op, arg, replaced, result, prev,
          committed, val, rexpr, pc>>

regvars == <<registry, OUT_DIR, fs, stdout, op, arg, replaced, result, prev,
             committed>>

marshallvars == <<val, rexpr, pc>>

----------------------------------------------------------------------------
(* Bounds and input sets *)

\* the largest size_of::<T>() of the values given to marshall_value alone
MaxSize == 3

\* u8
Byte == 0 .. 255

\* bytes used in the values longer than one byte
ByteSamples == {0, 8, 10, 127, 171, 255}

RECURSIVE SeqsOfLen(_, _)
SeqsOfLen(S, n) ==
    IF n = 0 THEN {<<>>}
    ELSE {Append(s, x) : s \in SeqsOfLen(S, n - 1), x \in S}

\* the memory images marshall_value is applied to: every value of size 0 and
\* 1, and the values over ByteSamples of the sizes 2 .. MaxSize
MarshallInputs ==
    SeqsOfLen(Byte, 0) \cup SeqsOfLen(Byte, 1)
        \cup UNION {SeqsOfLen(ByteSamples, n) : n \in 2 .. MaxSize}

\* symbolic names given to add_const
Names == {<<"n">>, <<"n", "s">>}

\* the constants given to add_const, each a type name with the memory of a
\* value of that type: a zero-sized (), a u8 and the u32 0x08080808
Consts ==
    {[typename |-> <<"(", ")">>, val |-> <<>>],
     [typename |-> <<"u", "8">>, val |-> <<255>>],
     [typename |-> <<"u", "3", "2">>, val |-> <<8, 8, 8, 8>>]}

\* values of the OUT_DIR environment variable
Dirs == {<<"/", "o">>, <<"/", "t">>}

----------------------------------------------------------------------------
(* Result<T, E> *)

\* std::env::VarError
VarErrors == {"NotPresent", "NotUnicode"}

\* Result<String, env::VarError>
VarOk(s) == [tag |-> "Ok", v |-> s, e |-> "none"]

VarErr(e) == [tag |-> "Err", v |-> <<>>, e |-> e]

\* io::Result<()>: Ok(())
IoOk == [tag |-> "Ok", kind |-> "none", msg |-> "none"]

\* io::Result<()>: Err(io::Error)
IoErr(kind, msg) == [tag |-> "Err", kind |-> kind, msg |-> msg]

\* io::Error::new(io::ErrorKind::Other, "missing OUT_PATH")
MissingOutPath == IoErr("Other", "missing OUT_PATH")

\* the io::Error of the operating system that File::create or write_all returns
OsError(what) == IoErr("Os", what)

\* a panic leaving the call (Result::unwrap on an Err)
Panic == [tag |-> "Panic", kind |-> "unwrap", msg |-> "stdout"]

\* the value of a call that returns no Result
Unit == [tag |-> "Unit", kind |-> "none", msg |-> "none"]

----------------------------------------------------------------------------
(* marshall_value *)

HexDigitsUpper ==
    <<"0", "1", "2", "3", "4", "5", "6", "7",
      "8", "9", "A", "B", "C", "D", "E", "F">>

\* {:X} of an unsigned integer: its base-16 digits, most significant first,
\* at least one digit
RECURSIVE UpperHex(_)
UpperHex(b) ==
    IF b < 16 THEN <<HexDigitsUpper[b + 1]>>
    ELSE Append(UpperHex(b \div 16), HexDigitsUpper[(b % 16) + 1])

\* {:X} of an unsigned integer with no width and no fill
NoPad(s, w) == s

\* the fill of {:0w}: zeros in front until the text is w wide
RECURSIVE ZeroPad(_, _)
ZeroPad(s, w) == IF Len(s) >= w THEN s ELSE ZeroPad(<<"0">> \o s, w)

\* format!("0x{:02X}, ", b)
FormatByte(b) == <<"0", "x">> \o ZeroPad(UpperHex(b), 2) \o <<",", " ">>

\* the for loop of marshall_value from index i on; *vptr.offset(i) is mem[i + 1]
RECURSIVE marshall_loop(_, _, _)
marshall_loop(mem, i, acc) ==
    IF i >= Len(mem) THEN acc
    ELSE marshall_loop(mem, i + 1, acc \o FormatByte(mem[i + 1]))

marshall_value(mem) == marshall_loop(mem, 0, <<"&", "[">>) \o <<"]">>

----------------------------------------------------------------------------
(* create_constant_func *)

FnHead == <<"#", "[", "i", "n", "l", "i", "n", "e", "]", "\n", "f", "n", " ">>

FnArrow ==
    <<"(", ")", " ", "-", ">", " ", "&", "'", "s", "t", "a", "t", "i", "c", " ">>

FnBuf ==
    <<" ", "{", "\n", " ", " ", " ", " ", "c", "o", "n", "s", "t", " ", "B",
      "U", "F", ":", " ", "&", "[", "u", "8", "]", " ", "=", " ">>

FnCast ==
    <<";", "\n", " ", " ", " ", " ", "u", "n", "s", "a", "f", "e", " ", "{",
      " ", "&", "*", "(", "B", "U", "F", ".", "a", "s", "_", "p", "t", "r",
      "(", ")", " ", "a", "s", " ", "*", "c", "o", "n", "s", "t", " ">>

FnTail == <<")", " ", "}", "\n", "}", "\n">>

create_constant_func(fname, typename, mem) ==
    LET sval == marshall_value(mem)
    IN  FnHead \o fname \o FnArrow \o typename \o FnBuf \o sval
            \o FnCast \o typename \o FnTail

----------------------------------------------------------------------------
(* build_output_path and cconst! *)

PathPrefix == <<"/", "c", "c", "o", "n", "s", "t", "-">>

PathSuffix == <<".", "r", "s">>

\* env::var("OUT_DIR")
env_var == OUT_DIR

\* a build_output_path that falls back on the current directory
build_output_path_or_cwd(fname) ==
    VarOk((IF env_var.tag = "Ok" THEN env_var.v ELSE <<".">>)
              \o PathPrefix \o fname \o PathSuffix)

\* a build_output_path that joins the name with an underscore
build_output_path_underscore(fname) ==
    IF env_var.tag = "Ok"
    THEN VarOk(env_var.v \o <<"/", "c", "c", "o", "n", "s", "t", "_">> \o fname
                   \o PathSuffix)
    ELSE env_var

\* a build_output_path that names one file for all the constants
build_output_path_shared(fname) ==
    IF env_var.tag = "Ok"
    THEN VarOk(env_var.v \o <<"/", "c", "c", "o", "n", "s", "t">> \o PathSuffix)
    ELSE env_var

build_output_path(fname) ==
    IF env_var.tag = "Ok"
    THEN VarOk(env_var.v \o PathPrefix \o fname \o PathSuffix)
    ELSE env_var

\* cconst!(fname) expanded where env!("OUT_DIR") is dir
cconst(dir, fname) == dir \o (PathPrefix \o (fname \o PathSuffix))

----------------------------------------------------------------------------
(* maps and files *)

\* a map, or a file system, with the entry k -> v put in place of any other
\* entry under k
Put(m, k, v) == [x \in DOMAIN m \cup {k} |-> IF x = k THEN v ELSE m[x]]

EmptyMap == [x \in {} |-> <<>>]

\* HashMap::insert(k, v) without the old value: the map afterwards
insert_if_absent(m, k, v) == IF k \in DOMAIN m THEN m ELSE Put(m, k, v)

insert(m, k, v) == Put(m, k, v)

\* fs::File::create(path): the file exists afterwards and is empty
File_create_keep(f, path) == IF path \in DOMAIN f THEN f ELSE Put(f, path, <<>>)

File_create(f, path) == Put(f, path, <<>>)

\* a single fp.write(buf) that the operating system cuts short
write_once(f, path, buf) == Put(f, path, f[path] \o SubSeq(buf, 1, Len(buf) \div 2))

\* fp.write_all(buf) on the file just opened, when it succeeds: buf follows
\* what the file holds
write_all(f, path, buf) == Put(f, path, f[path] \o buf)

\* what a file left by an earlier build holds
Stale == <<"o", "l", "d">>

\* a file of the output directory that is no generated file
Unrelated == <<"/", "o", "/", "o", "u", "t", "p", "u", "t">>

\* the files present when the build script starts: under /o the unrelated
\* file and a stale cconst-n.rs, nothing under /t
InitialFiles ==
    [p \in {Unrelated, cconst(<<"/", "o">>, <<"n">>)} |-> Stale]

----------------------------------------------------------------------------
(* CopyConsts *)

\* Option<String>
None == <<>>

Some(x) == <<x>>

NoArg == [fname |-> <<>>, typename |-> <<>>, val |-> <<>>]

NoCall == [op |-> "none", tag |-> "none"]

\* CopyConsts::new(), in a process whose environment and output directory are
\* whatever the build left there
Init ==
    /\ registry = EmptyMap
    /\ OUT_DIR \in {VarErr(e) : e \in VarErrors} \cup {VarOk(d) : d \in Dirs}
    /\ fs = InitialFiles
    /\ stdout = <<>>
    /\ op = "new"
    /\ arg = NoArg
    /\ replaced = None
    /\ result = Unit
    /\ prev = NoCall
    /\ committed = FALSE
    /\ val = <<>>
    /\ rexpr = <<>>
    /\ pc = "none"

\* CopyConsts::add_const(fname, typename, &val), mem the memory of val
add_const(fname, typename, mem) ==
    /\ registry' = insert(registry, fname, create_constant_func(fname, typename, mem))
    /\ replaced' = IF fname \in DOMAIN registry THEN Some(registry[fname]) ELSE None
    /\ op' = "add_const"
    /\ arg' = [fname |-> fname, typename |-> typename, val |-> mem]
    /\ result' = Unit
    /\ prev' = [op |-> op, tag |-> result.tag]
    /\ stdout' = <<>>
    /\ UNCHANGED <<OUT_DIR, fs, committed>>
    /\ UNCHANGED marshallvars

\* the orders in which a HashMap with the keys S may be iterated
Orders(S) ==
    {s \in SeqsOfLen(S, Cardinality(S)) : \A i, j \in DOMAIN s : s[i] = s[j] => i = j}

\* what the operating system may do to write_code: nothing, or make the i-th
\* iteration fail at its write to stdout, at File::create, or in write_all
\* after part of the buffer is in the file
NoFault == [at |-> 0, kind |-> "none"]

FaultKinds == {"stdout", "create", "write_nothing", "write_half"}

Faults(n) == {NoFault} \cup {[at |-> i, kind |-> k] : i \in 1 .. n, k \in FaultKinds}

\* the bytes of buf that reached the file when write_all fails
Written(buf, kind) ==
    CASE kind = "write_nothing" -> <<>>
      [] kind = "write_half" -> SubSeq(buf, 1, Len(buf) \div 2)

\* the for loop of write_code from the i-th entry of the iteration order on,
\* with the files f and the output out so far
RECURSIVE write_loop(_, _, _, _, _)
write_loop(order, i, fault, f, out) ==
    IF i > Len(order) THEN [fs |-> f, out |-> out, result |-> IoOk]
    ELSE
        LET fname == order[i]
            buf == registry[fname]
            output_path == build_output_path(fname)
            hit == fault.at = i
        IN  IF output_path.tag # "Ok"
            THEN [fs |-> f, out |-> out, result |-> MissingOutPath]
            ELSE IF hit /\ fault.kind = "stdout"
            THEN [fs |-> f, out |-> out, result |-> Panic]
            ELSE IF hit /\ fault.kind = "create"
            THEN [fs |-> f, out |-> Append(out, output_path.v),
                  result |-> OsError("create")]
            ELSE IF hit
            THEN [fs |-> write_all(File_create(f, output_path.v), output_path.v,
                                   Written(buf, fault.kind)),
                  out |-> Append(out, output_path.v),
                  result |-> OsError("write")]
            ELSE write_loop(order, i + 1, fault,
                            write_all(File_create(f, output_path.v), output_path.v, buf),
                            Append(out, output_path.v))

\* a write_code that reads OUT_DIR once, before the loop
write_code_run_eager(order, fault) ==
    IF env_var.tag # "Ok"
    THEN [fs |-> fs, out |-> <<>>, result |-> MissingOutPath]
    ELSE write_loop(order, 1, fault, fs, <<>>)

\* a write_code that goes on with the next entry when one fails and returns
\* the error at the end
RECURSIVE write_loop_keep_going(_, _, _, _, _, _)
write_loop_keep_going(order, i, fault, f, out, res) ==
    IF i > Len(order) THEN [fs |-> f, out |-> out, result |-> res]
    ELSE
        LET fname == order[i]
            buf == registry[fname]
            output_path == build_output_path(fname)
            hit == fault.at = i
        IN  IF output_path.tag # "Ok"
            THEN [fs |-> f, out |-> out, result |-> MissingOutPath]
            ELSE IF hit /\ fault.kind = "stdout"
            THEN [fs |-> f, out |-> out, result |-> Panic]
            ELSE IF hit /\ fault.kind = "create"
            THEN write_loop_keep_going(order, i + 1, fault, f,
                                       Append(out, output_path.v), OsError("create"))
            ELSE IF hit
            THEN write_loop_keep_going(
                     order, i + 1, fault,
                     write_all(File_create(f, output_path.v), output_path.v,
                               Written(buf, fault.kind)),
                     Append(out, output_path.v), OsError("write"))
            ELSE write_loop_keep_going(
                     order, i + 1, fault,
                     write_all(File_create(f, output_path.v), output_path.v, buf),
                     Append(out, output_path.v), res)

write_code_run_keep_going(order, fault) ==
    write_loop_keep_going(order, 1, fault, fs, <<>>, IoOk)

\* the body of write_code when the HashMap iterates in this order and the
\* operating system does this: the files, the output and the value returned
write_code_run(order, fault) == write_loop(order, 1, fault, fs, <<>>)

\* a write_code that takes the entries out of the registry (HashMap::drain)
write_code_drain ==
    \E order \in Orders(DOMAIN registry), fault \in Faults(Cardinality(DOMAIN registry)) :
        LET r == write_code_run(order, fault)
        IN  /\ fs' = r.fs
            /\ stdout' = r.out
            /\ result' = r.result
            /\ op' = "write_code"
            /\ arg' = NoArg
            /\ replaced' = None
            /\ prev' = [op |-> op, tag |-> result.tag]
            /\ committed' = TRUE
            /\ registry' = EmptyMap
            /\ UNCHANGED OUT_DIR
            /\ UNCHANGED marshallvars

\* CopyConsts::write_code(&self)
write_code ==
    \E order \in Orders(DOMAIN registry), fault \in Faults(Cardinality(DOMAIN registry)) :
        LET r == write_code_run(order, fault)
        IN  /\ fs' = r.fs
            /\ stdout' = r.out
            /\ result' = r.result
            /\ op' = "write_code"
            /\ arg' = NoArg
            /\ replaced' = None
            /\ prev' = [op |-> op, tag |-> result.tag]
            /\ committed' = TRUE
            /\ UNCHANGED <<registry, OUT_DIR>>
            /\ UNCHANGED marshallvars

Next ==
    \/ \E fname \in Names, c \in Consts : add_const(fname, c.typename, c.val)
    \/ write_code

Spec == Init /\ [][Next]_vars

----------------------------------------------------------------------------
(* marshall_value called on its own *)

InitMarshall ==
    /\ registry = EmptyMap
    /\ OUT_DIR = VarErr("NotPresent")
    /\ fs = EmptyMap
    /\ stdout = <<>>
    /\ op = "new"
    /\ arg = NoArg
    /\ replaced = None
    /\ result = Unit
    /\ prev = NoCall
    /\ committed = FALSE
    /\ val \in MarshallInputs
    /\ rexpr = <<>>
    /\ pc = "call"

marshall_call ==
    /\ pc = "call"
    /\ rexpr' = marshall_value(val)
    /\ pc' = "returned"
    /\ UNCHANGED val
    /\ UNCHANGED regvars

NextMarshall == marshall_call

SpecMarshall == InitMarshall /\ [][NextMarshall]_vars

----------------------------------------------------------------------------
(* Helpers of the properties *)

\* the value of an uppercase hexadecimal digit, 16 for any other character
HexValue(c) ==
    CASE c = "0" -> 0 [] c = "1" -> 1 [] c = "2" -> 2 [] c = "3" -> 3
      [] c = "4" -> 4 [] c = "5" -> 5 [] c = "6" -> 6 [] c = "7" -> 7
      [] c = "8" -> 8 [] c = "9" -> 9 [] c = "A" -> 10 [] c = "B" -> 11
      [] c = "C" -> 12 [] c = "D" -> 13 [] c = "E" -> 14 [] c = "F" -> 15
      [] OTHER -> 16

\* t occurs in s as a run of consecutive characters
IsInfix(t, s) ==
    \E k \in 0 .. Len(s) - Len(t) : SubSeq(s, k + 1, k + Len(t)) = t

\* t is what s starts with
IsPrefix(t, s) == Len(t) <= Len(s) /\ SubSeq(s, 1, Len(t)) = t

\* the path of the file of the entry fname, OUT_DIR being set
PathOf(fname) == cconst(OUT_DIR.v, fname)

\* the files of the registry's entries
EntryPaths == {PathOf(n) : n \in DOMAIN registry}

\* the name of the entry whose file is p
EntryAt(p) == CHOOSE n \in DOMAIN registry : PathOf(n) = p

\* path p holds the same in the file systems f and g, or is in neither
SameAt(f, g, p) ==
    /\ p \in DOMAIN f <=> p \in DOMAIN g
    /\ p \in DOMAIN f => f[p] = g[p]

\* the paths at which the file systems f and g differ
Touched(f, g) == {p \in DOMAIN f \cup DOMAIN g : ~SameAt(f, g, p)}

\* the file system f with every entry of the registry in its file, defined
\* without any order of the entries
Committed(f) ==
    [p \in DOMAIN f \cup EntryPaths |->
        IF p \in EntryPaths THEN registry[EntryAt(p)] ELSE f[p]]

----------------------------------------------------------------------------
(* C1 *)

\* C1: marshall_value of a value of n bytes returns "&[", then n groups,
\* then "]"; the i-th group is "0x", the two uppercase hexadecimal digits of
\* the byte at offset i, and ", " (also after the last group), in address
\* order, with no byte skipped, repeated or changed.
C1_MarshallLayout ==
    pc = "returned" =>
        LET n == Len(val)
        IN  /\ Len(rexpr) = 2 + 6 * n + 1
            /\ rexpr[1] = "&"
            /\ rexpr[2] = "["
            /\ rexpr[Len(rexpr)] = "]"
            /\ \A i \in 0 .. n - 1 :
                    LET at == 2 + 6 * i
                    IN  /\ rexpr[at + 1] = "0"
                        /\ rexpr[at + 2] = "x"
                        /\ HexValue(rexpr[at + 3]) < 16
                        /\ HexValue(rexpr[at + 4]) < 16
                        /\ 16 * HexValue(rexpr[at + 3]) + HexValue(rexpr[at + 4])
                                = val[i + 1]
                        /\ rexpr[at + 5] = ","
                        /\ rexpr[at + 6] = " "

\* a value of several different bytes, the first below 0x10, was marshalled
C1_Witness ==
    /\ pc = "returned"
    /\ Len(val) >= 2
    /\ val[1] < 16
    /\ val[1] # val[2]
    /\ Len(rexpr) > 3

----------------------------------------------------------------------------
(* C2 *)

\* C2: after add_const(name, t2, v2) the registry holds under name the
\* generated text of (name, t2, v2) and nothing else, whatever was under
\* name before, and the entries under all other names are unchanged.
C2_AddOverwrites ==
    [][op' = "add_const" =>
        LET a == arg'
        IN  /\ DOMAIN registry' = DOMAIN registry \cup {a.fname}
            /\ registry'[a.fname] = create_constant_func(a.fname, a.typename, a.val)
            /\ \A n \in DOMAIN registry \ {a.fname} : registry'[n] = registry[n]
            /\ replaced' # None /\ replaced'[1] # registry'[a.fname]
                    => ~IsInfix(replaced'[1], registry'[a.fname])]_vars

\* an add_const replaced a different text under its name, another name being
\* registered too
C2_Witness ==
    /\ op = "add_const"
    /\ replaced # None
    /\ replaced[1] # registry[arg.fname]
    /\ Cardinality(DOMAIN registry) = 2

----------------------------------------------------------------------------
(* C3 *)

\* C3 as stated: whatever the registry holds, write_code with OUT_DIR
\* unavailable returns the "missing OUT_PATH" error and changes no file.
C3_Original ==
    [][op' = "write_code" /\ OUT_DIR.tag # "Ok"
            => result' = MissingOutPath /\ fs' = fs]_vars

\* C3 amended: when the registry holds at least one entry, write_code with
\* OUT_DIR unavailable returns the "missing OUT_PATH" error, prints nothing
\* and changes no file.
C3_MissingOutDir ==
    [][op' = "write_code" /\ OUT_DIR.tag # "Ok" /\ DOMAIN registry # {}
            => result' = MissingOutPath /\ fs' = fs /\ stdout' = <<>>]_vars

\* write_code was called on a registry with entries while OUT_DIR was unset
C3_Witness ==
    /\ op = "write_code"
    /\ OUT_DIR = VarErr("NotPresent")
    /\ DOMAIN registry # {}
    /\ result = MissingOutPath

----------------------------------------------------------------------------
(* C4 *)

\* C4: write_code on a registry with no entries returns Ok and leaves the
\* file system unchanged, whether or not OUT_DIR is available.
C4_EmptyCommit ==
    [][op' = "write_code" /\ DOMAIN registry = {}
            => result' = IoOk /\ fs' = fs /\ stdout' = <<>>]_vars

\* write_code returned Ok on an empty registry while OUT_DIR was unset
C4_Witness ==
    /\ op = "write_code"
    /\ DOMAIN registry = {}
    /\ OUT_DIR.tag = "Err"
    /\ result = IoOk
    /\ fs = InitialFiles

----------------------------------------------------------------------------
(* C5 *)

\* C5: after a successful write_code, two registered names a # b have
\* different files, the file of a holds exactly the text stored under a
\* (not appended to what the file held before) and nothing of b's text.
C5_OneFilePerName ==
    op = "write_code" /\ result = IoOk =>
        \A a \in DOMAIN registry :
            /\ PathOf(a) \in DOMAIN fs
            /\ fs[PathOf(a)] = registry[a]
            /\ \A b \in DOMAIN registry \ {a} :
                    /\ PathOf(a) # PathOf(b)
                    /\ build_output_path(a).v # build_output_path(b).v
                    /\ ~IsInfix(registry[b], fs[PathOf(a)])

\* two names were written under /o, where a stale cconst-n.rs existed
C5_Witness ==
    /\ op = "write_code"
    /\ result = IoOk
    /\ Cardinality(DOMAIN registry) = 2
    /\ OUT_DIR = VarOk(<<"/", "o">>)
    /\ fs[PathOf(<<"n">>)] # Stale

----------------------------------------------------------------------------
(* C6 *)

\* C6: for every name and every value of OUT_DIR, build_output_path(name)
\* is the path cconst!(name) gives, OUT_DIR + "/cconst-" + name + ".rs";
\* write_code creates or changes files at the paths of its entries only,
\* and a successful write_code leaves a file at the path of every entry.
C6_PathAsIncluded ==
    [][/\ OUT_DIR.tag = "Ok" =>
            \A n \in Names : build_output_path(n) = VarOk(cconst(OUT_DIR.v, n))
       /\ op' = "write_code" =>
            /\ Touched(fs, fs') # {} => OUT_DIR.tag = "Ok"
            /\ \A p \in Touched(fs, fs') :
                    \E n \in DOMAIN registry : p = cconst(OUT_DIR.v, n)
            /\ result' = IoOk =>
                    \A n \in DOMAIN registry : cconst(OUT_DIR.v, n) \in DOMAIN fs'
      ]_vars

\* write_code created the files of two entries under /t, which held none
C6_Witness ==
    /\ op = "write_code"
    /\ result = IoOk
    /\ OUT_DIR = VarOk(<<"/", "t">>)
    /\ Cardinality(DOMAIN registry) = 2
    /\ \A n \in DOMAIN registry : cconst(<<"/", "t">>, n) \in DOMAIN fs

----------------------------------------------------------------------------
(* C7 *)

\* C7 as stated: the registry is consumed by write_code, so that no
\* add_const takes effect on a CopyConsts after a write_code on it.
C7_Original == [][committed => registry' = registry]_vars

\* C7 amended: the registry changes through add_const only and its set of
\* names never shrinks (Empty -> Populated, never back); write_code borrows
\* the registry and leaves it as it is, so nothing consumes it: an add_const
\* after a write_code takes effect like any other.
C7_OnlyAddMutates ==
    [][/\ DOMAIN registry \subseteq DOMAIN registry'
       /\ registry' # registry => op' = "add_const"
       /\ op' = "write_code" => registry' = registry
       /\ op' = "add_const" => arg'.fname \in DOMAIN registry'
       /\ committed => committed']_vars

\* an add_const took effect right after a write_code that had entries
C7_Witness ==
    /\ committed
    /\ op = "add_const"
    /\ prev.op = "write_code"
    /\ Cardinality(DOMAIN registry) = 2
    /\ replaced = None

----------------------------------------------------------------------------
(* C8 *)

----------------------------------------------------------------------------
(* C9 *)

\* C9: when File::create or write_all fails for an entry, write_code returns
\* the I/O error at once: the entries after it in the iteration are not
\* processed, nothing is rolled back, every file written before the failure
\* holds the full text of its entry, and the call has changed files of the
\* registry's entries only.
C9_AbortNoRollback ==
    [][op' = "write_code" /\ result'.tag = "Err" /\ result'.kind = "Os" =>
        LET k == Len(stdout')
            failed == stdout'[k]
            before == {stdout'[i] : i \in 1 .. k - 1}
        IN  /\ k >= 1
            /\ k <= Cardinality(DOMAIN registry)
            /\ \A i, j \in 1 .. k : stdout'[i] = stdout'[j] => i = j
            /\ before \cup {failed} \subseteq EntryPaths
            /\ \A p \in before : p \in DOMAIN fs' /\ fs'[p] = registry[EntryAt(p)]
            /\ \/ SameAt(fs, fs', failed)
               \/ /\ failed \in DOMAIN fs'
                  /\ IsPrefix(fs'[failed], registry[EntryAt(failed)])
                  /\ fs'[failed] # registry[EntryAt(failed)]
            /\ \A p \in (DOMAIN fs \cup DOMAIN fs' \cup EntryPaths) \ (before \cup {failed}) :
                    SameAt(fs, fs', p)
            /\ Touched(fs, fs') \subseteq EntryPaths
            /\ registry' = registry]_vars

\* write_all failed on the second of two entries, after the first was written
C9_Witness ==
    /\ op = "write_code"
    /\ result = OsError("write")
    /\ Len(stdout) = 2
    /\ fs[stdout[1]] = registry[EntryAt(stdout[1])]
    /\ fs[stdout[2]] # registry[EntryAt(stdout[2])]

----------------------------------------------------------------------------
(* C10 *)

\* C10: a successful write_code leaves the same file system whatever the
\* order in which it iterates the entries, namely the one in which every
\* entry is in its file and every other file is as before; and the registry
\* of two distinct names is the same whichever was added first.
C10_OrderIndependent ==
    [][/\ op' = "write_code" /\ result' = IoOk => fs' = Committed(fs)
       /\ op' = "add_const" /\ Cardinality(DOMAIN registry') = 2 =>
            LET a == arg'.fname
                b == CHOOSE n \in DOMAIN registry' : n # a
                ta == registry'[a]
                tb == registry'[b]
            IN  /\ registry' = insert(insert(EmptyMap, a, ta), b, tb)
                /\ registry' = insert(insert(EmptyMap, b, tb), a, ta)]_vars

\* a successful write_code of two entries that iterated ns before n
C10_Witness ==
    /\ op = "write_code"
    /\ result = IoOk
    /\ Cardinality(DOMAIN registry) = 2
    /\ Len(stdout) = 2
    /\ stdout[1] = PathOf(<<"n", "s">>)
    /\ fs = Committed(fs)

====
